---- MODULE Spec2Model ----
(***************************************************************************)
(* LSB steganography codec of StegoPic-LSB (src/steg.py).                  *)
(*                                                                         *)
(* Bit strings are sequences of the one-character strings "0" and "1", as  *)
(* in the Python source; characters of a message are their code points     *)
(* (ord / chr); an image is its size and its getdata() list of <<r, g, b>> *)
(* triples.  hide_data is one action; extract_data is stepped pixel by     *)
(* pixel (pc, pixel_index) and finished by one action for lines 139-165.   *)
(***************************************************************************)
EXTENDS Integers, Sequences, FiniteSets, TLC

VARIABLES
    files,                  \* path -> << >> (no such file) or <<image>>
    history,                \* messages hidden, in order, in the file stego.png
    last_call,              \* the call being made or last made, and its return
    pc,                     \* "idle" | "scanning" | "finish" | "done"
    pixel_index,            \* extract_data: pixels consumed by the for loop
    extracted_binary_data,  \* extract_data: local of the same name
    loop_exit,              \* extract_data: "" | "DONE" | "DONE_NO_TERMINATOR"
    warnings,               \* extract_data: warnings printed
    extracted_message       \* extract_data: local of the same name

vars == <<files, history, last_call, pc, pixel_index, extracted_binary_data,
          loop_exit, warnings, extracted_message>>

----------------------------------------------------------------------------
(* Bounds of the model *)

\* the longest message of the alphabet's characters
MaxMsgLen == 2

\* the most messages hidden, one over the other, in the file stego.png
MaxEmbeds == 2

\* the characters messages are drawn from: 'h', 'i'
Alphabet == {104, 105}

\* messages with a character above 255 (code point 300)
OverRange == {<<300>>, <<104, 300>>}

\* <<width, height>> of the cover images: 0, 37, 38, 39, 40 and 44 pixels
CoverSizes == {<<0, 0>>, <<37, 1>>, <<19, 2>>, <<13, 3>>, <<8, 5>>, <<11, 4>>}

CoverKinds == {"dark", "ramp", "marked"}

Paths == {"cover.png", "stego.png"}

----------------------------------------------------------------------------
(* steg.py, module level and to_binary *)

\* "#####END#####" as code points
STOP_SIGNAL == <<35, 35, 35, 35, 35, 69, 78, 68, 35, 35, 35, 35, 35>>

\* the binary digits of n >= 0, most significant first
RECURSIVE Digits(_)
Digits(n) == IF n < 2 THEN <<IF n = 1 THEN "1" ELSE "0">>
             ELSE Append(Digits(n \div 2), IF n % 2 = 1 THEN "1" ELSE "0")

\* Python's bin(n): "0b" and the digits
bin(n) == <<"0", "b">> \o Digits(n)

\* Python's format(n, "08b"): the digits, zero-padded to a width of at least 8
format08b(n) ==
    LET d == Digits(n)
    IN  IF Len(d) >= 8 THEN d
        ELSE [i \in 1..(8 - Len(d)) |-> "0"] \o d

RECURSIVE to_binary(_)
to_binary(data) ==
    IF data = << >> THEN << >>
    ELSE format08b(Head(data)) \o to_binary(Tail(data))

\* Python's int(s) of a one-character digit string
int(ch) == IF ch = "1" THEN 1 ELSE 0

\* Python's int(s, 2) raises ValueError on a character that is no binary digit
ValueError(s) == \E i \in 1..Len(s) : s[i] \notin {"0", "1"}

RECURSIVE int2(_)
int2(s) == IF s = << >> THEN 0
           ELSE 2 * int2(SubSeq(s, 1, Len(s) - 1)) + int(s[Len(s)])

----------------------------------------------------------------------------
(* hide_data *)

max_capacity_bits(img) == img.width * img.height * 3

\* line 60
CapacityExceeded_AtLeast(bits, img) == Len(bits) >= max_capacity_bits(img)

CapacityExceeded(bits, img) == Len(bits) > max_capacity_bits(img)

\* (c & 0xFE) | int(bit), lines 77, 82, 87
SetLSB_NoMask(c, bit) == IF c % 2 = 1 THEN c ELSE c + int(bit)

SetLSB(c, bit) == ((c % 256) - (c % 2)) + int(bit)

\* the for loop of lines 70-97, entered at pixel i (1-based) with data_index
RECURSIVE HideLoop(_, _, _, _, _)
HideLoop(pixels, bits, i, data_index, new_pixels) ==
    IF i > Len(pixels) THEN new_pixels
    ELSE
        LET r == pixels[i][1]
            g == pixels[i][2]
            b == pixels[i][3]
            n == Len(bits)
            new_r == IF data_index < n THEN SetLSB(r, bits[data_index + 1]) ELSE r
            i1    == IF data_index < n THEN data_index + 1 ELSE data_index
            new_g == IF i1 < n THEN SetLSB(g, bits[i1 + 1]) ELSE g
            i2    == IF i1 < n THEN i1 + 1 ELSE i1
            new_b == IF i2 < n THEN SetLSB(b, bits[i2 + 1]) ELSE b
            i3    == IF i2 < n THEN i2 + 1 ELSE i2
            np    == Append(new_pixels, <<new_r, new_g, new_b>>)
        IN  IF i3 >= n
            THEN np \o SubSeq(pixels, Len(np) + 1, Len(pixels))
            ELSE HideLoop(pixels, bits, i + 1, i3, np)

\* lines 65-101: the stego image built from img and the bit string
StegoImage(img, bits) ==
    [width  |-> img.width,
     height |-> img.height,
     pixels |-> HideLoop(img.pixels, bits, 1, 0, << >>)]

\* line 54
binary_secret_message(secret_message) ==
    to_binary(secret_message) \o to_binary(STOP_SIGNAL)

----------------------------------------------------------------------------
(* extract_data *)

stop_signal_binary == to_binary(STOP_SIGNAL)

stop_signal_length == Len(stop_signal_binary)

\* bin(c)[-1], lines 129-131
LSB_SecondChar(c) == bin(c)[2]

LSB(c) == bin(c)[Len(bin(c))]

\* lines 135-136: the last stop_signal_length bits are the stop signal
StopSignalIsSuffix(data) ==
    /\ Len(data) >= stop_signal_length
    /\ SubSeq(data, Len(data) - stop_signal_length + 1, Len(data)) = stop_signal_binary

\* Python's  pattern in data  on strings
Contains(data, pattern) ==
    \E k \in 0..(Len(data) - Len(pattern)) :
        SubSeq(data, k + 1, k + Len(pattern)) = pattern

\* line 140
StopSignalIn_LengthOnly(data) == Len(data) >= stop_signal_length

StopSignalIn(data) == Contains(data, stop_signal_binary)

\* line 141: data[:-stop_signal_length]
StripStopSignal_OneByteLess(data) ==
    SubSeq(data, 1, Len(data) - (stop_signal_length - 8))

StripStopSignal(data) == SubSeq(data, 1, Len(data) - stop_signal_length)

\* lines 151-154: the characters of the complete 8-bit groups
RECURSIVE DecodeBytes(_)
DecodeBytes(data) ==
    IF Len(data) < 8 THEN << >>
    ELSE <<int2(SubSeq(data, 1, 8))>> \o DecodeBytes(SubSeq(data, 9, Len(data)))

\* lines 155-157: the last group is shorter than 8 bits
IncompleteByte(data) == Len(data) % 8 # 0

----------------------------------------------------------------------------
(* The cover images and the messages *)

\* channel number k (0-based, scan order) of a cover of the given kind
CoverChannel(kind, k) ==
    CASE kind = "dark"   -> 0
      [] kind = "ramp"   -> (7 * k + 1) % 256
      [] kind = "marked" -> 254 + (IF k < stop_signal_length
                                   THEN int(stop_signal_binary[k + 1]) ELSE 0)

CoverImage(size, kind) ==
    [width  |-> size[1],
     height |-> size[2],
     pixels |-> [p \in 1..(size[1] * size[2]) |->
                    <<CoverChannel(kind, 3 * (p - 1)),
                      CoverChannel(kind, 3 * (p - 1) + 1),
                      CoverChannel(kind, 3 * (p - 1) + 2)>>]]

SeqsUpTo(S, n) == UNION {[1..k -> S] : k \in 0..n}

\* the messages hidden: "", "h", "i", "hi", "ih", ... (no character twice in a
\* row) and those with a character above 255
Messages ==
    {m \in SeqsUpTo(Alphabet, MaxMsgLen) :
        \A i \in 1..(Len(m) - 1) : m[i] # m[i + 1]}
    \cup OverRange

NoCall == [op |-> "none", path |-> "", msg |-> << >>, ret |-> "", printed |-> ""]

----------------------------------------------------------------------------
(* The state machine *)

Init ==
    /\ \E size \in CoverSizes, kind \in CoverKinds :
         files = [p \in Paths |->
                    IF p = "cover.png" THEN <<CoverImage(size, kind)>> ELSE << >>]
    /\ history = << >>
    /\ last_call = NoCall
    /\ pc = "idle"
    /\ pixel_index = 0
    /\ extracted_binary_data = << >>
    /\ loop_exit = ""
    /\ warnings = {}
    /\ extracted_message = << >>

\* load_image: None when the file does not exist
load_image(image_path) == files[image_path]

\* hide_data(image_path, secret_message, "stego.png")
HideData(image_path, secret_message) ==
    /\ pc = "idle"
    /\ image_path = "stego.png" => Len(history) < MaxEmbeds
    /\ LET loaded == load_image(image_path)
           bits   == binary_secret_message(secret_message)
           call   == [op |-> "hide", path |-> image_path, msg |-> secret_message,
                      ret |-> "False", printed |-> ""]
       IN  \/ /\ loaded = << >>
              /\ last_call' = [call EXCEPT !.printed = "image file not found"]
              /\ UNCHANGED <<files, history>>
           \/ /\ loaded # << >>
              /\ CapacityExceeded(bits, loaded[1])
              /\ last_call' = [call EXCEPT !.printed = "too large for the image"]
              /\ UNCHANGED <<files, history>>
           \/ /\ loaded # << >>
              /\ ~CapacityExceeded(bits, loaded[1])
              /\ files' = [files EXCEPT !["stego.png"] = <<StegoImage(loaded[1], bits)>>]
              /\ history' = IF image_path = "stego.png"
                            THEN Append(history, secret_message)
                            ELSE <<secret_message>>
              /\ last_call' = [call EXCEPT !.ret = "True",
                                           !.printed = "hidden successfully"]
    /\ UNCHANGED <<pc, pixel_index, extracted_binary_data, loop_exit, warnings,
                   extracted_message>>

\* extract_data(stego_image_path), lines 117-124
ExtractStart(stego_image_path) ==
    /\ pc = "idle"
    /\ LET call == [op |-> "extract", path |-> stego_image_path, msg |-> << >>,
                    ret |-> "pending", printed |-> ""]
       IN  \/ /\ load_image(stego_image_path) = << >>
              /\ last_call' = [call EXCEPT !.ret = "None",
                                           !.printed = "image file not found"]
              /\ pc' = "done"
           \/ /\ load_image(stego_image_path) # << >>
              /\ last_call' = call
              /\ pc' = "scanning"
    /\ pixel_index' = 0
    /\ extracted_binary_data' = << >>
    /\ UNCHANGED <<files, history, loop_exit, warnings, extracted_message>>

\* the pixels extract_data iterates over
ScanPixels == load_image(last_call.path)[1].pixels

\* one iteration of the for loop, lines 126-137
ExtractPixel ==
    /\ pc = "scanning"
    /\ pixel_index < Len(ScanPixels)
    /\ LET pixel == ScanPixels[pixel_index + 1]
           data  == extracted_binary_data
                      \o <<LSB(pixel[1]), LSB(pixel[2]), LSB(pixel[3])>>
       IN  /\ extracted_binary_data' = data
           /\ pixel_index' = pixel_index + 1
           /\ IF StopSignalIsSuffix(data)
              THEN pc' = "finish" /\ loop_exit' = "DONE"
              ELSE UNCHANGED <<pc, loop_exit>>
    /\ UNCHANGED <<files, history, last_call, warnings, extracted_message>>

\* the for loop ends with the pixels
ExtractExhausted ==
    /\ pc = "scanning"
    /\ pixel_index = Len(ScanPixels)
    /\ pc' = "finish"
    /\ loop_exit' = "DONE_NO_TERMINATOR"
    /\ UNCHANGED <<files, history, last_call, pixel_index, extracted_binary_data,
                   warnings, extracted_message>>

\* lines 139-165
ExtractFinish ==
    /\ pc = "finish"
    /\ LET found == StopSignalIn(extracted_binary_data)
           data  == IF found THEN StripStopSignal(extracted_binary_data)
                    ELSE extracted_binary_data
       IN  /\ extracted_binary_data' = data
           /\ IF ValueError(data)
              THEN /\ last_call' = [last_call EXCEPT !.ret = "None",
                                       !.printed = "Error decoding binary data"]
                   /\ extracted_message' = << >>
                   /\ warnings' = IF found THEN {} ELSE {"stop signal not found"}
              ELSE /\ last_call' = [last_call EXCEPT !.ret = "extracted_message"]
                   /\ extracted_message' = DecodeBytes(data)
                   /\ warnings' = (IF found THEN {} ELSE {"stop signal not found"})
                                  \cup (IF IncompleteByte(data)
                                        THEN {"incomplete byte"} ELSE {})
    /\ pc' = "done"
    /\ UNCHANGED <<files, history, pixel_index, loop_exit>>

Next ==
    \/ \E image_path \in Paths, secret_message \in Messages :
           HideData(image_path, secret_message)
    \/ \E stego_image_path \in Paths : ExtractStart(stego_image_path)
    \/ ExtractPixel
    \/ ExtractExhausted
    \/ ExtractFinish

Spec == Init /\ [][Next]_vars

----------------------------------------------------------------------------
(* Vocabulary of the properties *)

\* channel number k (0-based; row-major pixels, R then G then B)
Channel(pixels, k) == pixels[(k \div 3) + 1][(k % 3) + 1]

\* the least-significant bits of all channels of an image, in scan order
LSBStream(pixels) ==
    [k \in 1..(3 * Len(pixels)) |->
        IF Channel(pixels, k - 1) % 2 = 1 THEN "1" ELSE "0"]

Printable(m) == \A i \in 1..Len(m) : m[i] >= 32 /\ m[i] <= 126

SingleByte(m) == \A i \in 1..Len(m) : m[i] <= 255

\* an extract_data call on a file that was loaded
Extracting(path) ==
    /\ last_call.op = "extract"
    /\ last_call.path = path
    /\ last_call.printed # "image file not found"

\* the step is a hide_data call that loaded its image
HideStep ==
    /\ pc = "idle"
    /\ pc' = "idle"
    /\ last_call'.op = "hide"
    /\ files[last_call'.path] # << >>

\* the stop signal ends at a multiple-of-3 offset of bits before their end
AlignedEarlier(bits) ==
    \E p \in 1..((Len(bits) \div 3) - 1) :
        /\ 3 * p >= stop_signal_length
        /\ SubSeq(bits, 3 * p - stop_signal_length + 1, 3 * p) = stop_signal_binary

----------------------------------------------------------------------------
(* The properties *)

\* C1 (as claimed): extracting from the image hide_data produced for a
\* printable ASCII message that fits returns exactly that message, with no
\* warning.
C1_RoundTrip ==
    (pc = "done" /\ Extracting("stego.png") /\ history # << >>
        /\ Printable(history[Len(history)]))
    => /\ last_call.ret = "extracted_message"
       /\ extracted_message = history[Len(history)]
       /\ warnings = {}

\* C2: a hide_data call whose bit string (message and stop signal) is exactly
\* width*height*3 bits long returns True and writes a stego image of the
\* cover's size; one whose bit string is longer returns False with the
\* capacity error and leaves every file, the cover included, as it was.
C2_CapacityBoundary ==
    [][HideStep =>
        LET img  == files[last_call'.path][1]
            bits == to_binary(last_call'.msg) \o to_binary(STOP_SIGNAL)
            cap  == img.width * img.height * 3
        IN  /\ Len(bits) = cap =>
                /\ last_call'.ret = "True"
                /\ files'["stego.png"] # << >>
                /\ Len(files'["stego.png"][1].pixels) = Len(img.pixels)
            /\ Len(bits) > cap =>
                /\ last_call'.ret = "False"
                /\ last_call'.printed = "too large for the image"
                /\ files' = files
            /\ files'["cover.png"] = files["cover.png"]
      ]_vars

\* C2 witness: a message whose bit string fills the image exactly was hidden.
C2_Witness ==
    /\ pc = "idle"
    /\ last_call.op = "hide"
    /\ last_call.ret = "True"
    /\ Len(to_binary(last_call.msg) \o to_binary(STOP_SIGNAL))
         = 3 * Len(files["stego.png"][1].pixels)

\* C3 (as claimed): hide_data of a message with a character above 255 fails:
\* it returns False and writes nothing.
C3_EncodingRejection ==
    (last_call.op = "hide" /\ ~SingleByte(last_call.msg))
    => last_call.ret = "False"

\* C4: after a successful hide_data, channel k of the output is the cover's
\* channel k with its lowest bit replaced by bit k of the bit string for every
\* k below the length of the bit string, and the cover's channel k unchanged
\* for every other k; the output has as many pixels as the cover.
C4_WriteResult ==
    [][(HideStep /\ last_call'.ret = "True") =>
        \A old \in {files[last_call'.path][1]},
           new \in {files'["stego.png"][1]},
           bits \in {to_binary(last_call'.msg) \o to_binary(STOP_SIGNAL)} :
            /\ Len(new.pixels) = Len(old.pixels)
            /\ new.width = old.width
            /\ new.height = old.height
            /\ \A k \in 0..(3 * Len(old.pixels) - 1) :
                 Channel(new.pixels, k) =
                    IF k < Len(bits)
                    THEN 2 * (Channel(old.pixels, k) \div 2)
                           + (IF bits[k + 1] = "1" THEN 1 ELSE 0)
                    ELSE Channel(old.pixels, k)
      ]_vars

\* C4 witness: a bit string that ends inside a pixel, with later pixels left,
\* was written and changed the image.
C4_Witness ==
    /\ pc = "idle"
    /\ last_call.op = "hide"
    /\ last_call.path = "cover.png"
    /\ last_call.ret = "True"
    /\ Len(to_binary(last_call.msg) \o to_binary(STOP_SIGNAL)) % 3 # 0
    /\ Len(to_binary(last_call.msg) \o to_binary(STOP_SIGNAL)) + 3
         <= 3 * Len(files["stego.png"][1].pixels)
    /\ files["stego.png"] # files["cover.png"]

\* C5 (as claimed): extract_data on the unmodified cover, whatever its channel
\* values, warns that the stop signal was not found.
C5_TerminatorIntegrity ==
    (pc = "done" /\ Extracting("cover.png"))
    => "stop signal not found" \in warnings

\* C5 (amended): extract_data on an unmodified cover whose least-significant
\* bits, in scan order, do not contain the stop signal's bit pattern warns
\* that the stop signal was not found.
C5_TerminatorIntegrityAmended ==
    (pc = "done" /\ Extracting("cover.png")
        /\ ~Contains(LSBStream(files["cover.png"][1].pixels), stop_signal_binary))
    => "stop signal not found" \in warnings

\* C5 witness: a cover with pixels and without the pattern was extracted from.
C5_Witness ==
    /\ pc = "done"
    /\ Extracting("cover.png")
    /\ pixel_index > 0
    /\ ~Contains(LSBStream(files["cover.png"][1].pixels), stop_signal_binary)
    /\ "stop signal not found" \in warnings

\* C6 (as claimed): after hiding m1 in the cover and then m2 in the resulting
\* stego image (both printable ASCII, both fitting), extract_data returns
\* exactly m2.
C6_ReEmbed ==
    (pc = "done" /\ Extracting("stego.png") /\ Len(history) = 2
        /\ Printable(history[1]) /\ Printable(history[2]))
    => /\ last_call.ret = "extracted_message"
       /\ extracted_message = history[2]

\* the state part of C7
C7_Invariant ==
    \A path \in Paths :
        (Extracting(path) /\ pc # "idle") =>
            /\ pixel_index <= Len(files[path][1].pixels)
            /\ pc \in {"scanning", "finish"} =>
                 Len(extracted_binary_data) = 3 * pixel_index
            /\ pc = "scanning" => loop_exit = ""
            /\ pc \in {"finish", "done"} =>
                 /\ loop_exit \in {"DONE", "DONE_NO_TERMINATOR"}
                 /\ loop_exit = "DONE_NO_TERMINATOR"
                      => pixel_index = Len(files[path][1].pixels)
            /\ pc = "done" => last_call.ret = "extracted_message"

\* the step part of C7: a step of the scan takes the next pixel, or leaves the
\* loop at the end of the image; the step after the loop returns
C7_Step ==
    /\ pc = "scanning" =>
         \/ /\ pixel_index' = pixel_index + 1
            /\ pc' \in {"scanning", "finish"}
         \/ /\ pixel_index' = pixel_index
            /\ pixel_index = Len(ScanPixels)
            /\ pc' = "finish"
    /\ pc = "finish" => pc' = "done"
    /\ pc = "done" => pc' = "done"

\* C7: extract_data on a loaded image visits each pixel at most once (three
\* bits per visited pixel, never more pixels than the image has; every step
\* of the scan takes the next pixel or ends the loop, so the scan ends within
\* one traversal), leaves its loop in exactly one of the ways DONE (stop
\* signal matched) and DONE_NO_TERMINATOR (pixels exhausted), and returns a
\* decoded text, never None.
C7_ExtractionTotal == []C7_Invariant /\ [][C7_Step]_vars

\* C7 witness: a scan of an image with pixels ran to the end of the image and
\* returned a text.
C7_Witness ==
    /\ pc = "done"
    /\ last_call.op = "extract"
    /\ last_call.ret = "extracted_message"
    /\ loop_exit = "DONE_NO_TERMINATOR"
    /\ pixel_index > 0

\* C8 (as claimed): on an image produced by hiding a printable ASCII message
\* m that does not contain the stop signal, extract_data reads exactly
\* 8*len(m) + 104 bits.
C8_EarlyStopPerBit ==
    (pc \in {"finish", "done"} /\ Extracting("stego.png") /\ history # << >>
        /\ Printable(history[Len(history)])
        /\ ~Contains(to_binary(history[Len(history)]), stop_signal_binary))
    => 3 * pixel_index = 8 * Len(history[Len(history)]) + stop_signal_length

\* C9 (as claimed): when the scan ends with the pixels, extract_data warns
\* that the stop signal was not found and decodes all width*height*3 bits.
C9_EndOfImage ==
    \A path \in Paths :
        (pc = "done" /\ Extracting(path) /\ loop_exit = "DONE_NO_TERMINATOR")
        => /\ "stop signal not found" \in warnings
           /\ extracted_message = DecodeBytes(LSBStream(files[path][1].pixels))

\* the precondition of C10 on the message hidden last
C10_Aligned ==
    /\ Extracting("stego.png")
    /\ history # << >>
    /\ SingleByte(history[Len(history)])
    /\ (8 * Len(history[Len(history)]) + stop_signal_length) % 3 = 0
    /\ ~AlignedEarlier(to_binary(history[Len(history)]) \o stop_signal_binary)

\* C10: for a hidden message m of single-byte characters whose bit length
\* L = 8*len(m) + 104 is a multiple of 3, with no stop signal ending at an
\* earlier multiple-of-3 offset, the scan stops after exactly L/3 pixels and
\* extract_data returns exactly m with no warning, whatever the cover held.
C10_PixelAlignedRoundTrip ==
    C10_Aligned =>
        /\ pc \in {"finish", "done"} =>
             /\ loop_exit = "DONE"
             /\ 3 * pixel_index = 8 * Len(history[Len(history)]) + stop_signal_length
        /\ pc = "done" =>
             /\ last_call.ret = "extracted_message"
             /\ extracted_message = history[Len(history)]
             /\ warnings = {}

\* C10 witness: a two-character message was hidden over an earlier one and
\* extracted.
C10_Witness ==
    /\ pc = "done"
    /\ C10_Aligned
    /\ Len(history) = 2
    /\ Len(history[2]) = 2
    /\ history[1] # history[2]
    /\ extracted_message = history[2]

====
